---- MODULE Spec2Model ----
(***************************************************************************)
(* The request handlers of the notes API (src/app.py) over the two tables  *)
(* declared in src/models.py, with the serialisation schema of             *)
(* src/schemas.py.                                                         *)
(*                                                                         *)
(* State: the users table, the note table, the Flask-Login session of each *)
(* client (the user id kept in its cookie) and the last request with its   *)
(* response.  Every handler is one atomic action: it reads, decides and    *)
(* commits within one request.                                             *)
(*                                                                         *)
(* Library calls are modelled by their documented contract:                *)
(*   login_required  rejects a session without a user with 401,            *)
(*   login_user      stores the user's id in the session,                  *)
(*   logout_user     removes it,                                           *)
(*   dict[key]       raises KeyError when the key is absent,               *)
(*   Cls(k=v, ..)   raises TypeError on a keyword __init__ does not take, *)
(*   obj.attr        raises AttributeError when the object has no attr,    *)
(*   filter_by(k=v)  raises InvalidRequestError when k is not a column.    *)
(* An exception no except clause of the handler names leaves the handler   *)
(* unhandled: nothing is committed and the answer is 500.                  *)
(* Faults of the database itself (a failing commit) are not modelled.      *)
(* app.py registers no user_loader; how Flask-Login then reloads the user  *)
(* of a session is library behaviour and is not part of this model.        *)
(***************************************************************************)
EXTENDS Integers, FiniteSets, Sequences, TLC

\* ---------------------------------------------------------------- bounds
MaxNoteId == 2

Clients == {"c1", "c2"}
NoteIds == 1..MaxNoteId
Usernames == {"alice", "bob"}
Passwords == {"p1", "p2"}
Salts == {"s1", "s2"}
Titles == {"t", "t2"}
Contents == {"c", "c2"}

\* A JSON object with any subset of `keys` present, values from `vals`.
JsonBodies(keys, vals) == UNION {[K -> vals] : K \in SUBSET keys}

\* The bodies sent to /register and /login.
CredentialBodies ==
    {d \in JsonBodies({"username", "password"}, Usernames \cup Passwords) :
        /\ "username" \in DOMAIN d => d.username \in Usernames
        /\ "password" \in DOMAIN d => d.password \in Passwords}

\* The bodies sent to POST /notes and PUT /notes/<id>.
NoteBodies ==
    {d \in JsonBodies({"title", "content"}, Titles \cup Contents) :
        /\ "title" \in DOMAIN d => d.title \in Titles
        /\ "content" \in DOMAIN d => d.content \in Contents}

VARIABLES users, notes, session, resp

vars == <<users, notes, session, resp>>

\* ------------------------------------------------------- src/models.py
\* The session of a client that holds no user id.
Anonymous == 0

\* Columns of the note table.
NoteColumns == {"id", "title", "description", "status"}

\* Keyword parameters Note.__init__ takes.
NoteInitParams == {"title", "description", "status"}

\* Note(k=v, ..): the new row (without id), or TypeError.
Note_init(kwargs) ==
    IF DOMAIN kwargs = NoteInitParams
    THEN [ok |-> TRUE, row |-> kwargs]
    ELSE [ok |-> FALSE, row |-> kwargs]

\* werkzeug's salted one-way hash: the salt, and a digest of salt and password.
Digest(salt, password) == <<"digest", salt, password>>

generate_password_hash(password, salt) == <<salt, Digest(salt, password)>>

check_password_hash(pwhash, password) == pwhash[2] = Digest(pwhash[1], password)

\* User(username, password)
User_init(id, username, password, salt) ==
    [id |-> id, username |-> username,
     password_hash |-> generate_password_hash(password, salt)]

\* Primary keys are assigned by the table: one more than the largest in use.
MaxId(tbl) == IF tbl = {} THEN 0 ELSE CHOOSE m \in {r.id : r \in tbl} : \A r \in tbl : r.id <= m

NextId(tbl) == MaxId(tbl) + 1

\* ------------------------------------------------------ src/schemas.py
SchemaFields == {"id", "title", "description", "status"}

\* NoteSchema().dump(note): the declared fields the object has.
note_schema_dump(note) == [f \in SchemaFields \cap DOMAIN note |-> note[f]]

notes_schema_dump(rows) == {note_schema_dump(n) : n \in rows}

\* ---------------------------------------------------------- src/app.py
\* What a handler hands back: status, body, and the tables after it.
Result(status, body, tbl) == [status |-> status, body |-> body, tbl |-> tbl]

\* User.query.filter_by(username=username): the matching rows.
UserByUsername(tbl, username) == {u \in tbl : u.username = username}

\* Note.query.get(id): the matching rows (none: `not note`).
NoteById(tbl, id) == {n \in tbl : n.id = id}

TheRow(rows) == CHOOSE r \in rows : TRUE

\* A row of the note table as models.py declares it.
StoredNote(id) == [id |-> id, title |-> "t", description |-> "c", status |-> "new"]

\* The state once the module is loaded: db.create_all() adds the missing tables
\* and keeps the rows of the existing ones.  No handler can add a note row (see
\* NotesResource_post), so the rows the note table starts with are enumerated;
\* every users table the handlers can build is reached from the empty one.
Init ==
    /\ users = {}
    /\ notes \in {{StoredNote(id) : id \in S} : S \in SUBSET NoteIds}
    /\ session = [c \in Clients |-> Anonymous]
    /\ resp = [op |-> "none", client |-> "none", user |-> Anonymous, id |-> 0,
               data |-> <<>>, status |-> 0, body |-> "none"]

\* The request just handled and its answer; user is the session's user when
\* the request arrived.
Respond(op, c, id, data, status, body) ==
    resp' = [op |-> op, client |-> c, user |-> session[c], id |-> id,
             data |-> data, status |-> status, body |-> body]

\* Faulty variant: one session object shared by every client.
login_user_shared(sess, c, user) == [k \in DOMAIN sess |-> user.id]

\* Faulty variant: the user id is left in the session.
logout_user_kept(sess, c) == sess

\* flask_login.login_user / logout_user on the client's session.
login_user(sess, c, user) == [sess EXCEPT ![c] = user.id]

logout_user(sess, c) == [sess EXCEPT ![c] = Anonymous]

\* @login_required: the view runs only for a session that holds a user;
\* otherwise LoginManager.unauthorized() aborts with 401.
login_required(c, op, id, data, result) ==
    IF session[c] = Anonymous
    THEN /\ UNCHANGED notes
         /\ Respond(op, c, id, data, 401, "error")
    ELSE /\ notes' = result.tbl
         /\ Respond(op, c, id, data, result.status, result.body)

\* Faulty variant: the lookup before the insert is dropped.
UsernameTaken_unchecked(tbl, username) == FALSE

\* RegisterResource.post, line 50: the username is taken.
UsernameTaken(tbl, username) == UserByUsername(tbl, username) # {}

RegisterResource_post(c, data, salt) ==
    /\ UNCHANGED <<notes, session>>
    /\ IF ~({"username", "password"} \subseteq DOMAIN data)
       THEN /\ UNCHANGED users
            /\ Respond("register", c, 0, data, 500, "error")
       ELSE IF UsernameTaken(users, data.username)
       THEN /\ UNCHANGED users
            /\ Respond("register", c, 0, data, 400, "error")
       ELSE /\ users' = users \cup
                  {User_init(NextId(users), data.username, data.password, salt)}
            /\ Respond("register", c, 0, data, 201, "message")

\* Faulty variant: the password is not verified.
LoginRejected_nopassword(found, password) == found = {}

\* LoginResource.post, line 74: no such user, or the password does not verify.
LoginRejected(found, password) ==
    \/ found = {}
    \/ ~check_password_hash(TheRow(found).password_hash, password)

LoginResource_post(c, data) ==
    /\ UNCHANGED <<users, notes>>
    /\ IF ~({"username", "password"} \subseteq DOMAIN data)
       THEN /\ UNCHANGED session
            /\ Respond("login", c, 0, data, 500, "error")
       ELSE LET found == UserByUsername(users, data.username) IN
            IF LoginRejected(found, data.password)
            THEN /\ UNCHANGED session
                 /\ Respond("login", c, 0, data, 401, "error")
            ELSE /\ session' = login_user(session, c, TheRow(found))
                 /\ Respond("login", c, 0, data, 200, "message")

LogoutResource_post(c) ==
    /\ UNCHANGED <<users, notes>>
    /\ IF session[c] = Anonymous
       THEN /\ UNCHANGED session
            /\ Respond("logout", c, 0, <<>>, 401, "error")
       ELSE /\ session' = logout_user(session, c)
            /\ Respond("logout", c, 0, <<>>, 200, "message")

\* Note(title, content, user_id) with the id the table assigns on commit.
NewNoteRow(tbl, row) ==
    [k \in DOMAIN row \cup {"id"} |-> IF k = "id" THEN NextId(tbl) ELSE row[k]]

\* NotesResource.post under @login_required; cur is current_user.id.
NotesResource_post(tbl, cur, data) ==
    IF ~({"title", "content"} \subseteq DOMAIN data)
    THEN Result(500, "error", tbl)   \* KeyError: neither except clause names it
    ELSE LET made == Note_init([title |-> data.title, content |-> data.content,
                                user_id |-> cur]) IN
         IF ~made.ok
         THEN Result(500, "error", tbl)   \* TypeError: likewise unhandled
         ELSE Result(201, "message", tbl \cup {NewNoteRow(tbl, made.row)})

\* NotesResource.get: Note.query.filter_by(user_id=current_user.id).all()
NotesResource_get(tbl, cur) ==
    IF "user_id" \notin NoteColumns
    THEN Result(500, "error", tbl)   \* InvalidRequestError, no try around it
    ELSE Result(200, notes_schema_dump({n \in tbl : n.user_id = cur}), tbl)

\* Lines 137, 150, 175: `not note or note.user_id != current_user.id`.
\* "missing" and "foreign" answer 404; "raise" is the AttributeError of
\* note.user_id on an object without that attribute.
NoteGuard(tbl, cur, id) ==
    LET rows == NoteById(tbl, id) IN
    IF rows = {} THEN "missing"
    ELSE IF "user_id" \notin DOMAIN TheRow(rows) THEN "raise"
    ELSE IF TheRow(rows).user_id # cur THEN "foreign"
    ELSE "ok"

GuardFailure(guard, tbl) ==
    IF guard = "raise" THEN Result(500, "error", tbl) ELSE Result(404, "error", tbl)

NoteResource_get(tbl, cur, id) ==
    LET guard == NoteGuard(tbl, cur, id) IN
    IF guard # "ok" THEN GuardFailure(guard, tbl)
    ELSE Result(200, note_schema_dump(TheRow(NoteById(tbl, id))), tbl)

\* NoteResource.put: data.get(key, default) evaluates its default, note.title
\* and note.content, whether or not the key is present.
NoteResource_put(tbl, cur, id, data) ==
    LET guard == NoteGuard(tbl, cur, id)
        note == TheRow(NoteById(tbl, id))
    IN
    IF guard # "ok" THEN GuardFailure(guard, tbl)
    ELSE IF ~({"title", "content"} \subseteq DOMAIN note)
    THEN Result(500, "error", tbl)   \* AttributeError
    ELSE LET title == IF "title" \in DOMAIN data THEN data.title ELSE note.title
             content == IF "content" \in DOMAIN data THEN data.content ELSE note.content
         IN Result(200, "message",
                   (tbl \ {note}) \cup {[note EXCEPT !.title = title, !.content = content]})

NoteResource_delete(tbl, cur, id) ==
    LET guard == NoteGuard(tbl, cur, id) IN
    IF guard # "ok" THEN GuardFailure(guard, tbl)
    ELSE Result(200, "message", tbl \ NoteById(tbl, id))

CreateNote(c, data) ==
    /\ UNCHANGED <<users, session>>
    /\ login_required(c, "create_note", 0, data, NotesResource_post(notes, session[c], data))

ListNotes(c) ==
    /\ UNCHANGED <<users, session>>
    /\ login_required(c, "list_notes", 0, <<>>, NotesResource_get(notes, session[c]))

GetNote(c, id) ==
    /\ UNCHANGED <<users, session>>
    /\ login_required(c, "get_note", id, <<>>, NoteResource_get(notes, session[c], id))

UpdateNote(c, id, data) ==
    /\ UNCHANGED <<users, session>>
    /\ login_required(c, "update_note", id, data, NoteResource_put(notes, session[c], id, data))

DeleteNote(c, id) ==
    /\ UNCHANGED <<users, session>>
    /\ login_required(c, "delete_note", id, <<>>, NoteResource_delete(notes, session[c], id))

Next ==
    \/ \E c \in Clients, salt \in Salts, data \in CredentialBodies :
          RegisterResource_post(c, data, salt)
    \/ \E c \in Clients, data \in CredentialBodies : LoginResource_post(c, data)
    \/ \E c \in Clients : LogoutResource_post(c)
    \/ \E c \in Clients, data \in NoteBodies : CreateNote(c, data)
    \/ \E c \in Clients : ListNotes(c)
    \/ \E c \in Clients, id \in NoteIds : GetNote(c, id)
    \/ \E c \in Clients, id \in NoteIds, data \in NoteBodies : UpdateNote(c, id, data)
    \/ \E c \in Clients, id \in NoteIds : DeleteNote(c, id)

Spec == Init /\ [][Next]_vars
\* ------------------------------------------------------------- properties
HasCredentials(data) == {"username", "password"} \subseteq DOMAIN data

HasNoteFields(data) == {"title", "content"} \subseteq DOMAIN data

ProtectedOps == {"logout", "create_note", "list_notes", "get_note", "update_note", "delete_note"}

PerNoteOps == {"get_note", "update_note", "delete_note"}

UniqueUsernames == \A u, v \in users : u.username = v.username => u = v

\* The users whose stored hash the credentials verify against.
Verified(data) ==
    {u \in users : u.username = data.username
                   /\ check_password_hash(u.password_hash, data.password)}

\* C2: a Register with username and password answers 201 and adds exactly one
\* user of that name when the name is free, answers 400 and adds nothing when
\* it is taken, and no two stored users ever share a username.
C2_RegisterOnce ==
    [][ /\ UniqueUsernames'
        /\ (resp'.op = "register" /\ HasCredentials(resp'.data)) =>
              IF \E u \in users : u.username = resp'.data.username
              THEN resp'.status = 400 /\ users' = users
              ELSE /\ resp'.status = 201
                   /\ users \subseteq users'
                   /\ Cardinality(users') = Cardinality(users) + 1
                   /\ \E u \in users' \ users : u.username = resp'.data.username
      ]_vars

\* A second Register of a taken name, with another password, was refused.
C2_Witness ==
    /\ resp.op = "register" /\ resp.status = 400
    /\ \E u \in users : /\ u.username = resp.data.username
                        /\ ~check_password_hash(u.password_hash, resp.data.password)

\* C3: a Login with username and password answers 200 and sets the session to
\* that user exactly when the username is registered and the password verifies
\* against the stored hash; otherwise it answers 401 and leaves every session
\* as it was.
C3_LoginExactlyWhenVerified ==
    [][ (resp'.op = "login" /\ HasCredentials(resp'.data)) =>
           IF Verified(resp'.data) # {}
           THEN /\ resp'.status = 200
                /\ \E u \in Verified(resp'.data) :
                      session' = [session EXCEPT ![resp'.client] = u.id]
           ELSE resp'.status = 401 /\ session' = session
      ]_vars

\* A login was refused for a registered name with a wrong password, while the
\* other client's login succeeded.
C3_Witness ==
    /\ resp.op = "login" /\ resp.status = 401
    /\ \E u \in users : u.username = resp.data.username
    /\ \E c \in Clients : session[c] # Anonymous

C9_OnlyLogoutChangesUser ==
    [][ \A c \in Clients :
           (session[c] # Anonymous /\ session'[c] # session[c]) =>
              resp'.op = "logout" /\ resp'.client = c
      ]_vars

\* C9 as amended: the user of an Authenticated session changes only through
\* that client's Logout (to Anonymous) or that client's successful Login (to
\* the user whose credentials verified).
C9_LogoutOrLoginChangesUser ==
    [][ \A c \in Clients :
           (session[c] # Anonymous /\ session'[c] # session[c]) =>
              \/ /\ resp'.op = "logout" /\ resp'.client = c
                 /\ session'[c] = Anonymous
              \/ /\ resp'.op = "login" /\ resp'.client = c /\ resp'.status = 200
                 /\ \E u \in Verified(resp'.data) : session'[c] = u.id
      ]_vars

\* A session authenticated as one user logged in as another without a Logout.
C9_Witness ==
    /\ resp.op = "login" /\ resp.status = 200
    /\ resp.user # Anonymous
    /\ session[resp.client] \notin {Anonymous, resp.user}
\* The user a note row belongs to; a row without the attribute has none.
Owner(note) == IF "user_id" \in DOMAIN note THEN note.user_id ELSE Anonymous

AfterCreate ==
    resp.op = "create_note" /\ resp.user # Anonymous /\ HasNoteFields(resp.data)

\* The stored notes of `user` that carry this title and content.
OwnedBy(tbl, user, title, content) ==
    {n \in tbl : /\ {"user_id", "title", "content"} \subseteq DOMAIN n
                 /\ n.user_id = user /\ n.title = title /\ n.content = content}

\* What ListNotes answers to `user` in the current state.
Listed(user) == NotesResource_get(notes, user)

\* C5: after A's CreateNote(title, content) the answer is 201, A's next
\* ListNotes answers 200 with exactly one more entry, carrying that title and
\* content, owned by A, and the ListNotes of every other user lacks it.
C5_CreateThenList ==
    AfterCreate =>
       /\ resp.status = 201
       /\ \E n \in OwnedBy(notes, resp.user, resp.data.title, resp.data.content) :
             /\ n.id = MaxId(notes)
             /\ Listed(resp.user).status = 200
             /\ note_schema_dump(n) \in Listed(resp.user).body
             /\ \A u \in users :
                   u.id # resp.user =>
                      /\ Listed(u.id).status = 200
                      /\ note_schema_dump(n) \notin Listed(u.id).body

\* C6: the note A has just created answers A's UpdateNote carrying only a
\* title with 200; the title becomes the supplied one, content, owner and id
\* stay, and every other note is unchanged.
C6_TitleOnlyUpdate ==
    AfterCreate =>
       \E n \in OwnedBy(notes, resp.user, resp.data.title, resp.data.content) :
          \A title \in Titles :
             LET out == NoteResource_put(notes, resp.user, n.id, [title |-> title]) IN
             /\ out.status = 200
             /\ out.tbl = (notes \ {n}) \cup {[n EXCEPT !.title = title]}

\* C7: the note A has just created answers A's DeleteNote with 200; after it
\* GetNote of that id answers 404 to every user, A's ListNotes lacks the note
\* and every other note is still stored.
C7_DeleteThenGet404 ==
    AfterCreate =>
       \E n \in OwnedBy(notes, resp.user, resp.data.title, resp.data.content) :
          LET out == NoteResource_delete(notes, resp.user, n.id) IN
          /\ out.status = 200
          /\ out.tbl = notes \ {n}
          /\ \A u \in users : NoteResource_get(out.tbl, u.id, n.id).status = 404
          /\ LET after == NotesResource_get(out.tbl, resp.user) IN
                after.status = 200 /\ note_schema_dump(n) \notin after.body

\* C8: a CreateNote on an Authenticated session whose body lacks title or
\* content is answered 400 with an error body, and no note is created.
C8_MissingFieldIs400 ==
    [][ (/\ resp'.op = "create_note"
         /\ session[resp'.client] # Anonymous
         /\ ~HasNoteFields(resp'.data))
        => (resp'.status = 400 /\ resp'.body = "error" /\ notes' = notes)
      ]_vars

\* An update as the claim reads it: the supplied fields replace the note's.
Applied(note, data) ==
    [note EXCEPT !.title = IF "title" \in DOMAIN data THEN data.title ELSE @,
                 !.content = IF "content" \in DOMAIN data THEN data.content ELSE @]

====
